---- MODULE Spec2Model ----
(***************************************************************************)
(* doxy-coverage.py: documentation coverage computed from Doxygen's XML.   *)
(*                                                                         *)
(* main() parses the arguments, parse() walks index.xml and folds every    *)
(* compounddef and memberdef through parse_definition() into the `files`   *)
(* dictionary (file -> definition id -> (line, documented)), report()      *)
(* prints the per-file lines and the global percentage and returns the     *)
(* error value main() exits with.                                          *)
(*                                                                         *)
(* The program is Python 2 (cmp, list.sort(cmp), keys() returning a list,  *)
(* int / int truncating).  Python values are modelled as follows:          *)
(*   None | str      <<>> | <<s>>              (None, Some)                *)
(*   an XML child    [present, text]           (Absent, Elem)              *)
(*   a dict          a function on its keys    (EmptyDict, Put)            *)
(*   a float         <<numerator, denominator>>                            *)
(*   the text of a line attribute: the sequence of its decimal digits      *)
(***************************************************************************)
EXTENDS Integers, Sequences, FiniteSets, TLC

VARIABLES
    ns,             \* the parsed arguments: [threshold, noerror]
    index_present,  \* os.path.exists(<dir>/index.xml)
    pc,             \* position of main()
    files,          \* the dictionary threaded through parse()
    cur,            \* the node the running loop has yielded, <<>> between nodes
    nodes,          \* number of definition nodes read so far
    skips,          \* number of "skip ..." lines printed by parse_definition
    printed,        \* the per-file lines printed by report, in order
    summary,        \* the "N% API documentation coverage" line: <<>> or <<N>>
    err,            \* the value report returned: <<>> or <<value>>
    status,         \* the exit status of the process: <<>> while running
    stderr          \* what was written to standard error

vars == <<ns, index_present, pc, files, cur, nodes, skips, printed, summary,
          err, status, stderr>>

-----------------------------------------------------------------------------
(* Bounds and sample inputs *)

MaxNodes == 3

ACCEPTABLE_COVERAGE == 80

Thresholds == {50, ACCEPTABLE_COVERAGE}

-----------------------------------------------------------------------------
(* Python values *)

None == << >>

Some(x) == <<x>>

Absent == [present |-> FALSE, text |-> None]

Elem(t) == [present |-> TRUE, text |-> t]

EmptyDict == << >>

Put(d, k, v) == [x \in (DOMAIN d) \cup {k} |-> IF x = k THEN v ELSE d[x]]

\* "%s" of a value that is None or a string
Str(x) == IF x = None THEN "None" ELSE x[1]

\* bool(t) of a tuple: an empty tuple is false, any other is true
TruthyTuple(t) == Len(t) # 0

RECURSIVE int(_)
\* int(s) of a string of decimal digits
int(digits) ==
    IF digits = << >> THEN 0
    ELSE 10 * int(SubSeq(digits, 1, Len(digits) - 1)) + digits[Len(digits)]

RECURSIVE Concat(_)
Concat(chars) ==
    IF chars = << >> THEN "" ELSE Head(chars) \o Concat(Tail(chars))

\* `s in t` for two strings, t given by its characters: s is a substring of t
InStr(s, tchars) ==
    \E i \in 1..(Len(tchars) + 1) : \E j \in (i - 1)..Len(tchars) :
        s = Concat(SubSeq(tchars, i, j))

-----------------------------------------------------------------------------
(* The file system the run sees *)

RegularFiles == {"a.h", "b.h"}

SymLinks == [p \in {"la.h"} |-> "a.h"]

\* os.path.isfile(p): p names a regular file, symbolic links followed
isfile_any(p) == TRUE

isfile(p) == p \in RegularFiles \/ (p \in DOMAIN SymLinks /\ SymLinks[p] \in RegularFiles)

realpath(p) == IF p \in DOMAIN SymLinks THEN SymLinks[p] ELSE p

-----------------------------------------------------------------------------
(* XML definition nodes *)

DescriptionTags == <<"briefdescription", "detaileddescription", "inbodydescription">>

NoLocation == [present |-> FALSE, file |-> None, line |-> None]

Location(f, l) == [present |-> TRUE, file |-> f, line |-> l]

\* kind, static, id: attributes; described: the description children that have
\* child elements of their own; definition, name, argsstring, location: children
Node(kind, static, described, definition, name, argsstring, id, location) ==
    [kind |-> kind, static |-> static, described |-> described,
     definition |-> definition, name |-> name, argsstring |-> argsstring,
     id |-> id, location |-> location]

CompoundNodes ==
    { Node(k, None, ds, Absent, Absent, Absent, Some("C"), loc) :
        k \in {"class", "namespace"},
        ds \in {{}, {"detaileddescription"}},
        loc \in {NoLocation, Location(Some("a.h"), Some(<<7>>)),
                 Location(Some("b.h"), Some(<<7>>))} }

FunctionNodes ==
    { Node("function", Some(st), ds, Elem(Some("int f")), Elem(Some("f")),
           Elem(Some(args)), Some("m1"), Location(Some(f), Some(l))) :
        st \in {"yes", "no"},
        ds \in {{}, {"briefdescription"}},
        args \in {"(int)", "()"},
        f \in {"a.h", "la.h"},
        l \in {<<7>>, <<1, 2>>} }

VariableNodes ==
    { Node("variable", Some(st), ds, Elem(Some("int v")), Elem(Some("v")),
           Elem(None), Some("m2"), Location(Some("a.h"), Some(<<7>>))) :
        st \in {"yes", "no"},
        ds \in {{}, {"briefdescription", "detaileddescription"}} }

EnumNodes ==
    { Node("enum", Some("no"), ds, Absent, Elem(Some("E")), Absent, Some("m3"), loc) :
        ds \in {{}, {"detaileddescription"}, {"inbodydescription"}},
        loc \in {Location(Some("a.h"), Some(<<7>>)),
                 Location(Some("b.h"), Some(<<7>>)),
                 Location(Some("gone.h"), Some(<<7>>)),
                 Location(None, Some(<<7>>)),
                 Location(Some("a.h"), None)} }

MemberNodes == FunctionNodes \cup VariableNodes \cup EnumNodes

IndexKinds == {"dir", "group", "class", "file"}

-----------------------------------------------------------------------------
(* parse_definition *)

NamespaceChars == <<"n", "a", "m", "e", "s", "p", "a", "c", "e">>

documented(d) ==
    \E i \in 1..Len(DescriptionTags) : DescriptionTags[i] \in d.described

\* The name the node is known by
resolve_name(d) ==
    IF d.definition.present THEN d.definition.text
    ELSE IF d.name.present THEN d.name.text
    ELSE d.id

\* The key of the definition inside its file
make_defid(d) ==
    IF d.argsstring.present
    THEN Some(Str(resolve_name(d)) \o Str(d.argsstring.text))
    ELSE resolve_name(d)

\* "Should it be documented": the kinds and the static functions left out
excluded_static_kept(d) == InStr(d.kind, NamespaceChars)

excluded_namespace_kept(d) == d.kind = "function" /\ d.static = Some("yes")

excluded(d) ==
    \/ InStr(d.kind, NamespaceChars)
    \/ (d.kind = "function" /\ d.static = Some("yes"))

\* "Information available?": a location child with a file and a line attribute
location_known(d) ==
    /\ d.location.present
    /\ ~(d.location.line = None \/ d.location.file = None)

\* "merge into existing definitions": fs with defid of file filename set to value
merge_replacing(fs, filename, defid, value) ==
    Put(fs, filename, Put(EmptyDict, defid, value))

merge(fs, filename, defid, value) ==
    LET definitions == IF filename \in DOMAIN fs THEN fs[filename] ELSE EmptyDict
    IN  Put(fs, filename, Put(definitions, defid, value))

\* The dictionary parse_definition returns and whether it printed "skip ..."
parse_definition(fs, d) ==
    IF excluded(d)
    THEN [files |-> fs, skip |-> FALSE]
    ELSE IF ~location_known(d)
    THEN [files |-> fs, skip |-> FALSE]
    ELSE IF ~isfile(d.location.file[1])
    THEN [files |-> fs, skip |-> TRUE]
    ELSE [files |-> merge(fs, realpath(d.location.file[1]), make_defid(d),
                          <<int(d.location.line[1]), documented(d)>>),
          skip  |-> FALSE]

-----------------------------------------------------------------------------
(* report *)

\* cmp(a, b) of two numbers given as fractions with positive denominators
cmp(a, b) ==
    IF a[1] * b[2] < b[1] * a[2] THEN -1
    ELSE IF a[1] * b[2] > b[1] * a[2] THEN 1
    ELSE 0

\* get_coverage(f): the values of defs are the (line, documented) tuples, and the
\* comprehensions test the tuple itself
get_coverage(fs, f) ==
    LET defs    == fs[f]
        doc_yes == Cardinality({k \in DOMAIN defs : TruthyTuple(defs[k])})
        doc_no  == Cardinality({k \in DOMAIN defs : ~TruthyTuple(defs[k])})
    IN  IF DOMAIN defs = {} THEN <<100, 1>>
        ELSE <<doc_yes * 100, doc_yes + doc_no>>

file_cmp(fs, a, b) == cmp(get_coverage(fs, a), get_coverage(fs, b))

\* x inserted into the sorted list s behind every element that is not greater
RECURSIVE InsertSorted(_, _, _)
InsertSorted(fs, s, x) ==
    IF s = << >> THEN <<x>>
    ELSE IF file_cmp(fs, x, Head(s)) < 0 THEN <<x>> \o s
    ELSE <<Head(s)>> \o InsertSorted(fs, Tail(s), x)

\* list.sort(file_cmp): a stable sort
RECURSIVE sort(_, _)
sort(fs, keys) ==
    IF keys = << >> THEN << >>
    ELSE InsertSorted(fs, sort(fs, SubSeq(keys, 1, Len(keys) - 1)), keys[Len(keys)])

reverse(s) == [i \in 1..Len(s) |-> s[Len(s) + 1 - i]]

\* files.keys(): the keys in the order the dictionary yields them
KeyOrders(fs) ==
    LET n == Cardinality(DOMAIN fs)
    IN  { s \in [1..n -> DOMAIN fs] : \A i, j \in 1..n : s[i] = s[j] => i = j }

files_sorted(fs, keys) == reverse(sort(fs, keys))

\* "%d" of a non-negative float: the fraction is dropped
FormatD_rounding(x) == (2 * x[1] + x[2]) \div (2 * x[2])

FormatD(x) == x[1] \div x[2]

\* The line report prints for file f, <<>> for a file without definitions
file_line(fs, f) ==
    LET defs    == fs[f]
        doc_yes == Cardinality({k \in DOMAIN defs : defs[k][2]})
        doc_no  == Cardinality({k \in DOMAIN defs : ~defs[k][2]})
        doc_per == <<doc_yes * 100, doc_yes + doc_no>>
    IN  IF DOMAIN defs = {} THEN << >>
        ELSE << [pct     |-> FormatD(doc_per),
                 file    |-> f,
                 doc_yes |-> doc_yes,
                 doc_all |-> doc_yes + doc_no,
                 undoc   |-> {<<defs[k][1], k>> : k \in {x \in DOMAIN defs : ~defs[x][2]}}] >>

RECURSIVE file_lines(_, _)
file_lines(fs, order) ==
    IF order = << >> THEN << >>
    ELSE file_line(fs, Head(order)) \o file_lines(fs, Tail(order))

RECURSIVE SumOf(_, _)
SumOf(lines, field) ==
    IF lines = << >> THEN 0
    ELSE (IF field = "yes" THEN Head(lines).doc_yes
          ELSE Head(lines).doc_all - Head(lines).doc_yes)
         + SumOf(Tail(lines), field)

\* total_yes * 100 / total_all on Python 2 ints: the quotient without its fraction
total_percent_rounded(total_yes, total_all) ==
    (2 * total_yes * 100 + total_all) \div (2 * total_all)

total_percent(total_yes, total_all) == (total_yes * 100) \div total_all

\* (ns.threshold - total_per, 0)[total_per > ns.threshold]
report_result_inverted(total_per, threshold) ==
    IF total_per > threshold THEN threshold - total_per ELSE 0

report_result(total_per, threshold) ==
    IF total_per > threshold THEN 0 ELSE threshold - total_per

\* What report does on fs when the dictionary yields its keys in order `keys`
report(fs, keys, threshold) ==
    LET lines     == file_lines(fs, files_sorted(fs, keys))
        total_yes == SumOf(lines, "yes")
        total_no  == SumOf(lines, "no")
        total_all == total_yes + total_no
        total_per == total_percent(total_yes, total_all)
    IN  IF total_all = 0
        THEN [raised |-> TRUE, printed |-> lines, summary |-> None, result |-> None]
        ELSE [raised  |-> FALSE,
              printed |-> lines,
              summary |-> Some(total_per),
              result  |-> Some(report_result(total_per, threshold))]

-----------------------------------------------------------------------------
(* The run *)

Init ==
    /\ ns \in [threshold : Thresholds, noerror : BOOLEAN]
    /\ index_present \in BOOLEAN
    /\ pc = "parse"
    /\ files = EmptyDict
    /\ cur = None
    /\ nodes = 0
    /\ skips = 0
    /\ printed = << >>
    /\ summary = None
    /\ err = None
    /\ status = None
    /\ stderr = ""

\* sys.exit(n): the status a POSIX parent sees
ExitStatus(n) == n % 256

\* parse: index.xml is missing
FATAL ==
    /\ pc = "parse"
    /\ ~index_present
    /\ stderr' = "ERROR: Documentation not present. Exiting."
    /\ status' = Some(ExitStatus(1))
    /\ pc' = "exit"
    /\ UNCHANGED <<ns, index_present, files, cur, nodes, skips, printed, summary, err>>

\* parse: index.xml is read
parse_index ==
    /\ pc = "parse"
    /\ index_present
    /\ files' = EmptyDict
    /\ pc' = "index"
    /\ UNCHANGED <<ns, index_present, cur, nodes, skips, printed, summary, err,
                   status, stderr>>

\* parse: one compound entry of the index
parse_entry ==
    /\ pc = "index"
    /\ \E kind \in IndexKinds, on_disk \in BOOLEAN :
          IF kind \in {"dir", "group"} THEN pc' = pc
          ELSE IF on_disk THEN pc' = "file"
          ELSE pc' = pc
    /\ UNCHANGED <<ns, index_present, files, cur, nodes, skips, printed, summary,
                   err, status, stderr>>

\* parse_file: the outer loop yields a compounddef
next_compounddef ==
    /\ pc = "file"
    /\ nodes < MaxNodes
    /\ \E d \in CompoundNodes : cur' = Some(d)
    /\ nodes' = nodes + 1
    /\ pc' = "compounddef"
    /\ UNCHANGED <<ns, index_present, files, skips, printed, summary, err, status, stderr>>

\* files = parse_definition(files, cur), for a compounddef or a memberdef
classify ==
    /\ pc \in {"compounddef", "memberdef"}
    /\ LET r == parse_definition(files, cur[1])
       IN  /\ files' = r.files
           /\ skips' = IF r.skip THEN skips + 1 ELSE skips
    /\ cur' = None
    /\ pc' = "members"
    /\ UNCHANGED <<ns, index_present, nodes, printed, summary, err, status, stderr>>

\* parse_file: the inner loop yields a memberdef
next_memberdef ==
    /\ pc = "members"
    /\ nodes < MaxNodes
    /\ \E d \in MemberNodes : cur' = Some(d)
    /\ nodes' = nodes + 1
    /\ pc' = "memberdef"
    /\ UNCHANGED <<ns, index_present, files, skips, printed, summary, err, status, stderr>>

\* parse_file: the inner loop is exhausted
end_members ==
    /\ pc = "members"
    /\ pc' = "file"
    /\ UNCHANGED <<ns, index_present, files, cur, nodes, skips, printed, summary,
                   err, status, stderr>>

\* parse_file: the outer loop is exhausted, parse_file returns
end_file ==
    /\ pc = "file"
    /\ pc' = "index"
    /\ UNCHANGED <<ns, index_present, files, cur, nodes, skips, printed, summary,
                   err, status, stderr>>

\* parse: the index is exhausted, parse returns
end_index ==
    /\ pc = "index"
    /\ pc' = "report"
    /\ UNCHANGED <<ns, index_present, files, cur, nodes, skips, printed, summary,
                   err, status, stderr>>

\* err = report(files); an uncaught exception ends the process with status 1
main_report ==
    /\ pc = "report"
    /\ \E keys \in KeyOrders(files) :
          LET r == report(files, keys, ns.threshold)
          IN  /\ printed' = r.printed
              /\ summary' = r.summary
              /\ err' = r.result
              /\ IF r.raised
                 THEN /\ stderr' = "ZeroDivisionError"
                      /\ status' = Some(ExitStatus(1))
                      /\ pc' = "exit"
                 ELSE /\ pc' = "reported"
                      /\ UNCHANGED <<stderr, status>>
    /\ UNCHANGED <<ns, index_present, files, cur, nodes, skips>>

\* main: return when --noerror was given, sys.exit(err) otherwise
main_exit ==
    /\ pc = "reported"
    /\ status' = IF ns.noerror THEN Some(0) ELSE Some(ExitStatus(err[1]))
    /\ pc' = "exit"
    /\ UNCHANGED <<ns, index_present, files, cur, nodes, skips, printed, summary,
                   err, stderr>>

Next ==
    \/ FATAL
    \/ parse_index
    \/ parse_entry
    \/ next_compounddef
    \/ classify
    \/ next_memberdef
    \/ end_members
    \/ end_file
    \/ end_index
    \/ main_report
    \/ main_exit

Spec == Init /\ [][Next]_vars

-----------------------------------------------------------------------------
(* What the properties speak of, stated without the program's own operators *)

\* The (file, definition id) pairs of a CoverageIndex
Entries(fs) == UNION { { <<f, k>> : k \in DOMAIN fs[f] } : f \in DOMAIN fs }

TotalOverall(fs) == Cardinality(Entries(fs))

TotalDocumented(fs) == Cardinality({e \in Entries(fs) : fs[e[1]][e[2]][2]})

\* q is the quotient num / den with its fraction dropped
IsTruncatedQuotient(q, num, den) == q * den <= num /\ num < (q + 1) * den

\* q is num / den rounded to the nearest integer (halves upwards)
IsRoundedQuotient(q, num, den) ==
    2 * q * den - den <= 2 * num /\ 2 * num < 2 * q * den + den

GlobalPercentage(fs) ==
    CHOOSE q \in 0..100 : IsTruncatedQuotient(q, TotalDocumented(fs) * 100, TotalOverall(fs))

DefsOf(fs, f) == Cardinality(DOMAIN fs[f])

DocumentedOf(fs, f) == Cardinality({k \in DOMAIN fs[f] : fs[f][k][2]})

\* The path names a regular file, directly or through a symbolic link
OnDisk(p) == p \in RegularFiles \/ (p \in DOMAIN SymLinks /\ SymLinks[p] \in RegularFiles)

Resolved(p) == IF p \in DOMAIN SymLinks THEN SymLinks[p] ELSE p

\* The inclusion rule of the data model
Included(d) ==
    /\ d.kind # "namespace"
    /\ ~(d.kind = "function" /\ d.static = Some("yes"))
    /\ d.location.present
    /\ d.location.file # None
    /\ d.location.line # None
    /\ OnDisk(d.location.file[1])

\* Rejected only because the file is not on disk
NotOnDiskCase(d) ==
    /\ d.kind # "namespace"
    /\ ~(d.kind = "function" /\ d.static = Some("yes"))
    /\ d.location.present
    /\ d.location.file # None
    /\ d.location.line # None
    /\ ~OnDisk(d.location.file[1])

HasDescription(d) == d.described # {}

Classifying == pc \in {"compounddef", "memberdef"}

ReportReturned == err # None

ReportRan == index_present /\ pc \in {"reported", "exit"}

-----------------------------------------------------------------------------
(* C1 *)

\* C1 as stated: report returns 0 when the global percentage strictly exceeds the
\* threshold, and otherwise threshold - percentage, which is positive
C1_Original ==
    ReportReturned =>
        LET p == GlobalPercentage(files)
            t == ns.threshold
        IN  /\ (p > t => err[1] = 0)
            /\ (~(p > t) => err[1] = t - p /\ err[1] > 0)

\* C1 amended: report returns 0 when the global percentage strictly exceeds the
\* threshold and threshold - percentage otherwise; that value is positive exactly
\* when the percentage is below the threshold, and 0 when it equals it
C1_ReportResult ==
    ReportReturned =>
        LET p == GlobalPercentage(files)
            t == ns.threshold
        IN  /\ (p > t => err[1] = 0)
            /\ (~(p > t) => err[1] = t - p)
            /\ (err[1] > 0 <=> p < t)
            /\ (p = t => err[1] = 0)

C1_Witness ==
    /\ ReportReturned
    /\ TotalOverall(files) >= 1
    /\ GlobalPercentage(files) = ns.threshold
    /\ err = Some(0)

-----------------------------------------------------------------------------
(* C2 *)

\* C2 as stated: the file lines are printed from the highest coverage to the
\* lowest, and the sort key of a file with d documented of n definitions is d*100/n
C2_Original ==
    /\ \A i, j \in 1..Len(printed) :
          i < j => printed[i].doc_yes * 100 * printed[j].doc_all
                      >= printed[j].doc_yes * 100 * printed[i].doc_all
    /\ \A f \in DOMAIN files :
          DefsOf(files, f) >= 1 =>
              cmp(get_coverage(files, f),
                  <<DocumentedOf(files, f) * 100, DefsOf(files, f)>>) = 0

-----------------------------------------------------------------------------
(* C3 *)

\* C3: the CoverageIndex changes only when a node is classified that is not a
\* namespace, not a static function, has a location with a file and a line, and
\* whose file is a regular file on disk
C3_OnlyIncludedNodesWrite ==
    [][files' # files => Classifying /\ Included(cur[1])]_vars

\* A documented static function with a usable location is about to be classified
\* into an index that already holds entries
C3_Witness ==
    /\ pc = "memberdef"
    /\ files # EmptyDict
    /\ cur[1].kind = "function"
    /\ cur[1].static = Some("yes")
    /\ HasDescription(cur[1])
    /\ OnDisk(cur[1].location.file[1])

-----------------------------------------------------------------------------
(* C4 *)

ClaimedName(d) ==
    IF d.definition.present THEN d.definition.text
    ELSE IF d.name.present THEN d.name.text
    ELSE d.id

ClaimedId(d) ==
    IF d.argsstring.present /\ d.argsstring.text # None
    THEN Some(ClaimedName(d)[1] \o d.argsstring.text[1])
    ELSE ClaimedName(d)

\* C4 as stated: classifying an included node stores it under the resolved name,
\* followed by the text of argsstring when that child has text, and under the
\* name alone otherwise
C4_Original ==
    [][Classifying /\ Included(cur[1]) =>
          LET f == Resolved(cur[1].location.file[1])
          IN  /\ f \in DOMAIN files'
              /\ DOMAIN files'[f] =
                    (IF f \in DOMAIN files THEN DOMAIN files[f] ELSE {})
                        \cup {ClaimedId(cur[1])}]_vars

-----------------------------------------------------------------------------
(* C5 *)

SameName(d1, d2) ==
    /\ d1.definition = d2.definition
    /\ d1.name = d2.name
    /\ d1.id = d2.id

\* Ids of members of one name: apart when the argsstring texts differ, equal
\* when neither has an argsstring
IdsTellOverloadsApart ==
    \A d1, d2 \in MemberNodes :
        SameName(d1, d2) =>
            /\ (/\ d1.argsstring.present /\ d2.argsstring.present
                /\ d1.argsstring.text # None /\ d2.argsstring.text # None
                /\ d1.argsstring.text # d2.argsstring.text
                => make_defid(d1) # make_defid(d2))
            /\ (~d1.argsstring.present /\ ~d2.argsstring.present
                => make_defid(d1) = make_defid(d2))

\* C5: classifying an included node sets the entry of its (resolved file, id) to
\* its own (line, documented), whatever was there, and leaves every other entry
\* as it was: one entry per file and id, holding the last node's value
C5_LastWriteWins ==
    [][Classifying /\ Included(cur[1]) =>
          LET d  == cur[1]
              f  == Resolved(d.location.file[1])
              id == make_defid(d)
          IN  /\ IdsTellOverloadsApart
              /\ Entries(files') = Entries(files) \cup {<<f, id>>}
              /\ files'[f][id] = <<int(d.location.line[1]), HasDescription(d)>>
              /\ \A e \in Entries(files) \ {<<f, id>>} :
                    files'[e[1]][e[2]] = files[e[1]][e[2]]]_vars

\* A node is about to overwrite the entry of an earlier node of the same file and
\* id with another value, next to an entry of another id
C5_Witness ==
    /\ pc = "memberdef"
    /\ Included(cur[1])
    /\ LET f  == Resolved(cur[1].location.file[1])
           id == make_defid(cur[1])
       IN  /\ <<f, id>> \in Entries(files)
           /\ files[f][id] # <<int(cur[1].location.line[1]), HasDescription(cur[1])>>
           /\ \E e \in Entries(files) : e[1] = f /\ e[2] # id

-----------------------------------------------------------------------------
(* C6 *)

\* C6: the global percentage printed is total_documented * 100 / total_overall
\* with the fraction dropped; 7 of 11 gives 63
C6_GlobalPercentageTruncated ==
    /\ summary # None =>
          /\ TotalOverall(files) >= 1
          /\ IsTruncatedQuotient(summary[1], TotalDocumented(files) * 100,
                                 TotalOverall(files))
    /\ total_percent(7, 11) = 63

\* 2 documented of 3: 66 is printed where rounding gives 67
C6_Witness ==
    /\ summary = Some(66)
    /\ TotalDocumented(files) = 2
    /\ TotalOverall(files) = 3
    /\ ~IsRoundedQuotient(summary[1], 200, 3)

-----------------------------------------------------------------------------
(* C7 *)

\* Every file with definitions has exactly one line, carrying its path and counts
FileLinesMatchIndex ==
    /\ \A i \in 1..Len(printed) :
          /\ printed[i].file \in DOMAIN files
          /\ printed[i].doc_yes = DocumentedOf(files, printed[i].file)
          /\ printed[i].doc_all = DefsOf(files, printed[i].file)
    /\ \A f \in DOMAIN files :
          DefsOf(files, f) >= 1 =>
              Cardinality({i \in 1..Len(printed) : printed[i].file = f}) = 1

\* C7 as stated: the line of a file shows d*100/n rounded to the nearest integer,
\* the path and the counts d of n
C7_Original ==
    ReportRan =>
        /\ FileLinesMatchIndex
        /\ \A i \in 1..Len(printed) :
              IsRoundedQuotient(printed[i].pct, printed[i].doc_yes * 100,
                                printed[i].doc_all)

\* C7 amended: the line of a file shows d*100/n with its fraction dropped, the
\* path and the counts d of n
C7_FileLineTruncated ==
    ReportRan =>
        /\ FileLinesMatchIndex
        /\ \A i \in 1..Len(printed) :
              IsTruncatedQuotient(printed[i].pct, printed[i].doc_yes * 100,
                                  printed[i].doc_all)

C7_Witness ==
    /\ ReportRan
    /\ \E i \in 1..Len(printed) :
          /\ printed[i].doc_yes = 2
          /\ printed[i].doc_all = 3
          /\ printed[i].pct = 66

-----------------------------------------------------------------------------
(* C8 *)

\* C8 as stated: with index.xml present, --noerror always gives exit status 0;
\* without it a percentage below the threshold gives threshold - percentage
C8_Original ==
    (index_present /\ pc = "exit") =>
        /\ (ns.noerror => status = Some(0))
        /\ (/\ ~ns.noerror
            /\ TotalOverall(files) >= 1
            /\ GlobalPercentage(files) < ns.threshold
            => /\ status = Some(ns.threshold - GlobalPercentage(files))
               /\ status[1] > 0)

-----------------------------------------------------------------------------
(* C9 *)

\* C9: classifying a rejected node leaves the CoverageIndex as it was, the
\* file-not-on-disk case prints a line, and in every case the run goes on with
\* the members of the compound
C9_RejectedNodePassesThrough ==
    [][Classifying =>
          /\ (~Included(cur[1]) => files' = files)
          /\ (NotOnDiskCase(cur[1]) => skips' = skips + 1)
          /\ pc' = "members"
          /\ status' = None
          /\ stderr' = ""]_vars

\* Two nodes were read, the compounddef was rejected, and the memberdef after it
\* was classified: its file is not on disk and the line was printed
C9_Witness ==
    /\ pc = "members"
    /\ nodes = 2
    /\ skips = 1
    /\ files = EmptyDict

-----------------------------------------------------------------------------
(* C10 *)

\* C10 as stated: with index.xml present the run ends with the global line
\* printed and a value returned by report, for the empty CoverageIndex too
C10_Original ==
    (index_present /\ pc = "exit") =>
        /\ summary # None
        /\ err # None
        /\ stderr = ""

====
